---- MODULE Spec2Model ----
(***************************************************************************)
(* The tuner of the matching backend (backend/src/services/tuner.ts) and   *)
(* the in-memory user corpus it reads (backend/src/data/seedUsers.ts).     *)
(* The graph index behind vectorStore.searchWithEf follows the design     *)
(* (sections 4.2 and 5).                                                   *)
(*                                                                         *)
(* Units.  performance.now() is read in ticks of 0.001 ms.  The fields     *)
(* avgLatencyMs and p95LatencyMs hold the value after toFixed(2), that is  *)
(* in hundredths of a millisecond; queriesPerSecond holds the value after  *)
(* toFixed(1), in tenths.  recall is the exact fraction num / den.         *)
(* Array indices are the 0-based indices of the source; a TLA+ sequence    *)
(* holds element i of the array at position i + 1.                         *)
(***************************************************************************)
EXTENDS Integers, Sequences, FiniteSets, TLC

VARIABLES
  users,         \* seedUsers.ts: the module-level array `users`
  indexIds,      \* vectorStore: the labels the index returns, in result order
  now,           \* performance.now(), in ticks
  pc,            \* runBenchmark: "idle", "searching" (at the await), "done", "failed";
                 \* getBestConfig alone: "select", "selected";
                 \* getExactNeighbors alone: "oracle", "oracleDone"
                 \* the metrics of a config alone: "metrics", "metricsDone";
                 \* sampleIndices alone: "sampling", "sampled";
                 \* the index alone: "index"; POST /chat: "chat";
                 \* chatWithBot alone: "called", "rag" and "openai" (at its
                 \* awaits), "resolved", "rejected"
  error,         \* what runBenchmark rejected with ("none" while it has not)
  numQueries,    \* runBenchmark local
  k,             \* runBenchmark local
  ci,            \* runBenchmark: position of `config` in CONFIGS (1-based)
  queryIndices,  \* runBenchmark local
  qi,            \* position of `queryIdx` in queryIndices (1-based)
  groundTruth,   \* runBenchmark local
  startTime,     \* runBenchmark local
  latencies,     \* runBenchmark local
  totalHits,     \* runBenchmark local totalRecall, times k
  results,       \* runBenchmark local, then the route's `results`
  latencyBudget, \* the route's latencyBudget, in hundredths of a ms ("unset" before)
  selectedConfig,\* the route's selectedConfig ("unset" before)
  indexState,    \* ANNIndex: "Empty", "Building" or "Ready"
  nodes,         \* ANNIndex: the inserted nodes (id, vector), in insertion order
  adjacency,     \* ANNIndex: node id -> its neighbour ids, strongest first
  indexConfig,   \* ANNIndex: << config >> of the last build, << >> before any
  pending,       \* ANNIndex.build: the entities still to insert
  found,         \* ANNIndex.search: << query, list >> of the last search that
                 \* returned, << query >> of one that failed, << >> before any
  reading,       \* ANNIndex: the searches in flight
  writing,       \* ANNIndex: the mutators (build, upsert) in flight
  sampleMax,     \* sampleIndices: parameter max
  sampleCount,   \* sampleIndices: parameter count
  indices,       \* sampleIndices local
  sessions,      \* routes/chat.ts: the SessionState objects created so far
  sessionStore,  \* routes/chat.ts: userId -> its SessionState (position in sessions)
  requests,      \* POST /chat: the requests received, each with the locals of
                 \* its handler and its position between the awaits
  reply,         \* POST /chat: << reply >> last sent, << >> before any
  llmUserId,     \* chatWithBot: << userId >>, << >> when called without
  ragContext,    \* chatWithBot local
  completion,    \* chatWithBot: what the awaited completions.create gave
  chatResponse   \* chatWithBot: << value >> it resolved with, << >> before

indexVars == << indexState, nodes, adjacency, indexConfig, pending, found,
                reading, writing >>

samplerVars == << sampleMax, sampleCount, indices >>

llmVars == << llmUserId, ragContext, completion, chatResponse >>

chatVars == << sessions, sessionStore, requests, reply, llmVars >>

vars == << users, indexIds, now, pc, error, numQueries, k, ci, queryIndices, qi,
           groundTruth, startTime, latencies, totalHits, results,
           latencyBudget, selectedConfig, indexVars, samplerVars, chatVars >>

----------------------------------------------------------------------------
(* Bounds of the model *)

MaxSeed == 2          \* users generated by initializeUsers
MaxClock == 10        \* the clock stops advancing at this tick
MaxResults == 3       \* length of a result list handed to getBestConfig
MaxSelectP95 == 2     \* largest p95 (hundredths) of such a result
MaxSelectHits == 1    \* largest hit count behind the recall of such a result
MaxCorpus == 3        \* corpus size handed to getExactNeighbors
MaxK == 2             \* largest k handed to getExactNeighbors

----------------------------------------------------------------------------
(* Program constants *)

\* A catalog with the widest graph first.
CONFIGSWidestFirst ==
  << [M |-> 48, efConstruction |-> 400, efSearch |-> 300],
     [M |-> 8,  efConstruction |-> 100, efSearch |-> 20],
     [M |-> 8,  efConstruction |-> 100, efSearch |-> 50],
     [M |-> 16, efConstruction |-> 100, efSearch |-> 50],
     [M |-> 16, efConstruction |-> 200, efSearch |-> 100],
     [M |-> 32, efConstruction |-> 200, efSearch |-> 100],
     [M |-> 32, efConstruction |-> 200, efSearch |-> 200],
     [M |-> 32, efConstruction |-> 400, efSearch |-> 200] >>

CONFIGS ==
  << [M |-> 8,  efConstruction |-> 100, efSearch |-> 20],
     [M |-> 8,  efConstruction |-> 100, efSearch |-> 50],
     [M |-> 16, efConstruction |-> 100, efSearch |-> 50],
     [M |-> 16, efConstruction |-> 200, efSearch |-> 100],
     [M |-> 32, efConstruction |-> 200, efSearch |-> 100],
     [M |-> 32, efConstruction |-> 200, efSearch |-> 200],
     [M |-> 32, efConstruction |-> 400, efSearch |-> 200],
     [M |-> 48, efConstruction |-> 400, efSearch |-> 300] >>

\* routes/tuner.ts, GET /tuner/configs: the list the handler returns as the
\* configs to test
configs ==
  << [M |-> 8,  efConstruction |-> 100, efSearch |-> 50],
     [M |-> 16, efConstruction |-> 100, efSearch |-> 50],
     [M |-> 16, efConstruction |-> 200, efSearch |-> 100],
     [M |-> 32, efConstruction |-> 200, efSearch |-> 100],
     [M |-> 32, efConstruction |-> 400, efSearch |-> 200],
     [M |-> 48, efConstruction |-> 400, efSearch |-> 200] >>

SampleCap == 20       \* Math.min(20, users.length)
RecallK == 10         \* const k = 10

----------------------------------------------------------------------------
(* Small helpers *)

Min2(a, b) == IF a <= b THEN a ELSE b

RECURSIVE SumSeq(_)
SumSeq(s) == IF s = << >> THEN 0 ELSE Head(s) + SumSeq(Tail(s))

RangeOf(s) == { s[i] : i \in 1..Len(s) }

\* Array.prototype.slice(0, n) for n >= 0
Slice0(s, n) == SubSeq(s, 1, Min2(n, Len(s)))

----------------------------------------------------------------------------
(* vectorStore.cosineSimilarity, by the order it induces.                  *)
(* sim(a, b) = dot(a, b) / (|a| |b|), and 0 when either magnitude is 0.    *)
(* All components are >= 0, so two similarities to the same query compare  *)
(* as dot^2 / |v|^2 does.                                                  *)

RECURSIVE Dot(_, _)
Dot(a, b) == IF a = << >> \/ b = << >> THEN 0
             ELSE Head(a) * Head(b) + Dot(Tail(a), Tail(b))

\* cosineSimilarity(q, a) > cosineSimilarity(q, b)
SimGreater(q, a, b) ==
  LET na == Dot(a, a)
      nb == Dot(b, b)
      da == Dot(q, a)
      db == Dot(q, b)
  IN  IF Dot(q, q) = 0 \/ na = 0 THEN FALSE
      ELSE IF nb = 0 THEN da > 0
      ELSE da * da * nb > db * db * na

----------------------------------------------------------------------------
(* tuner.ts: getExactNeighbors *)

\* A comparator that never moves an element: x goes to the end.
UnsortedInsert(q, x, s) == s \o << x >>

\* One insertion of .sort((a, b) => b.sim - a.sim): x goes in front of the
\* first element it strictly beats, hence after every element it ties with.
RECURSIVE InsertDesc(_, _, _)
InsertDesc(q, x, s) ==
  IF s = << >> THEN << x >>
  ELSE IF SimGreater(q, x.vector, Head(s).vector) THEN << x >> \o s
  ELSE << Head(s) >> \o InsertDesc(q, x, Tail(s))

\* .sort((a, b) => b.sim - a.sim): stable, highest similarity first.
RECURSIVE SortBySimDesc(_, _)
SortBySimDesc(q, s) ==
  IF s = << >> THEN << >>
  ELSE InsertDesc(q, s[Len(s)], SortBySimDesc(q, SubSeq(s, 1, Len(s) - 1)))

\* users.map((user, idx) => ({id, idx, sim})): a new array; the similarity is
\* kept as the vector it is computed from.
Similarities(us) ==
  [ i \in 1..Len(us) |-> [id |-> us[i].id, idx |-> i - 1, vector |-> us[i].vector] ]

\* .filter(item => item.idx !== excludeIdx)
RECURSIVE FilterNotIdx(_, _)
FilterNotIdx(s, excludeIdx) ==
  IF s = << >> THEN << >>
  ELSE IF Head(s).idx # excludeIdx
       THEN << Head(s) >> \o FilterNotIdx(Tail(s), excludeIdx)
       ELSE FilterNotIdx(Tail(s), excludeIdx)

getExactNeighbors(queryVector, us, kk, excludeIdx) ==
  LET similarities == SortBySimDesc(queryVector,
                        FilterNotIdx(Similarities(us), excludeIdx))
      top == Slice0(similarities, kk)
  IN  [ i \in 1..Len(top) |-> top[i].id ]

----------------------------------------------------------------------------
(* tuner.ts: sampleIndices *)

\* The arrays the loop can end with: `count` pairwise distinct indices below
\* `max`, in the order they were drawn.
sampleIndices(max, count) ==
  { s \in [1..count -> 0..(max - 1)] :
      \A i, j \in 1..count : i # j => s[i] # s[j] }

----------------------------------------------------------------------------
(* vectorStore.searchWithEf.  The index answers a query with the labels it  *)
(* holds, at most k of them; it fails when it holds none.                   *)

\* An index that answers an empty list when it holds nothing.
searchNeverThrows(idx) == FALSE

searchThrows(idx) == idx = << >>

searchWithEf(idx, queryVector, kk, efSearch) ==
  [ i \in 1..Min2(kk, Len(idx)) |-> [id |-> idx[i]] ]

----------------------------------------------------------------------------
(* tuner.ts: runBenchmark, the metrics of one config (lines 89-107) *)

\* Counts the approximate results found in the ground truth, one by one.
HitsPerResult(gt, approxResults) ==
  Cardinality({ i \in 1..Len(approxResults) : approxResults[i].id \in RangeOf(gt) })

\* groundTruth.filter(id => approxIds.has(id)).length, approxIds a Set
Hits(gt, approxResults) ==
  LET approxIds == { approxResults[i].id : i \in 1..Len(approxResults) }
  IN  Cardinality({ i \in 1..Len(gt) : gt[i] \in approxIds })

\* Leaves the latencies in the order they were measured.
Unsorted(s) == s

RECURSIVE InsertAsc(_, _)
InsertAsc(x, s) ==
  IF s = << >> THEN << x >>
  ELSE IF x < Head(s) THEN << x >> \o s
  ELSE << Head(s) >> \o InsertAsc(x, Tail(s))

\* latencies.sort((a, b) => a - b)
RECURSIVE SortAsc(_)
SortAsc(s) ==
  IF s = << >> THEN << >>
  ELSE InsertAsc(s[Len(s)], SortAsc(SubSeq(s, 1, Len(s) - 1)))

\* The index of the 90th percentile.
P90Index(n) == (n * 90) \div 100

\* Math.floor(latencies.length * 0.95); exact for the lengths up to SampleCap
P95Index(n) == (n * 95) \div 100

\* latencies[p95Index] || latencies[latencies.length - 1], of a non-empty
\* sorted array: a missing or zero element falls through to the last one.
P95Latency(sorted) ==
  LET i == P95Index(Len(sorted)) + 1
  IN  IF i <= Len(sorted) /\ sorted[i] # 0 THEN sorted[i] ELSE sorted[Len(sorted)]

\* parseFloat((num / den).toFixed(2)) of a time of num / den ticks, in
\* hundredths of a millisecond: the nearest hundredth, halves upwards.
ToFixed2(num, den) == (2 * num + 10 * den) \div (20 * den)

\* parseFloat((1000 / avgLatency).toFixed(1)) in tenths; Infinity is -1
QueriesPerSecond(sum, n) ==
  IF sum = 0 THEN -1 ELSE (20000000 * n + sum) \div (2 * sum)

\* p95Latency is undefined when no latency was measured, and
\* undefined.toFixed(2) throws a TypeError.
metricsThrow(lat) == lat = << >>

\* The object pushed to results (lines 101-107), for a non-empty lat
ConfigResult(config, lat, hits, nq, kk) ==
  LET sorted == SortAsc(lat)
      sum == SumSeq(sorted)
  IN  [ M |-> config.M,
        efConstruction |-> config.efConstruction,
        efSearch |-> config.efSearch,
        recall |-> [num |-> hits, den |-> kk * nq],
        avgLatencyMs |-> ToFixed2(sum, Len(sorted)),
        p95LatencyMs |-> ToFixed2(P95Latency(sorted), 1),
        queriesPerSecond |-> QueriesPerSecond(sum, Len(sorted)) ]

----------------------------------------------------------------------------
(* tuner.ts: getBestConfig *)

\* a.recall > b.recall, of two fractions with positive denominators
RecallGreater(a, b) == a.recall.num * b.recall.den > b.recall.num * a.recall.den

\* results.filter(r => r.p95LatencyMs <= latencyBudgetMs)
RECURSIVE Eligible(_, _)
Eligible(rs, budget) ==
  IF rs = << >> THEN << >>
  ELSE IF Head(rs).p95LatencyMs <= budget
       THEN << Head(rs) >> \o Eligible(Tail(rs), budget)
       ELSE Eligible(Tail(rs), budget)

\* Keeps the slower of the two.
PickSlower(best, r) == IF r.p95LatencyMs > best.p95LatencyMs THEN r ELSE best

\* Keeps what it already holds.
PickHeld(best, r) == best

\* Keeps the result it holds and gives it the lower of the two latencies.
PickFasterMerged(best, r) ==
  IF r.p95LatencyMs < best.p95LatencyMs
  THEN [best EXCEPT !.p95LatencyMs = r.p95LatencyMs]
  ELSE best

\* (best, r) => r.p95LatencyMs < best.p95LatencyMs ? r : best
PickFaster(best, r) == IF r.p95LatencyMs < best.p95LatencyMs THEN r ELSE best

\* Takes the later of two results of equal recall.
PickRecallOrLater(best, r) == IF RecallGreater(best, r) THEN best ELSE r

\* (best, r) => r.recall > best.recall ? r : best
PickRecall(best, r) == IF RecallGreater(r, best) THEN r ELSE best

\* results.reduce(PickFaster), of a non-empty array: starts from its first
\* element and folds the others in, in order
RECURSIVE ReduceFaster(_, _)
ReduceFaster(best, rest) ==
  IF rest = << >> THEN best
  ELSE ReduceFaster(PickFaster(best, Head(rest)), Tail(rest))

\* eligible.reduce(PickRecall)
RECURSIVE ReduceRecall(_, _)
ReduceRecall(best, rest) ==
  IF rest = << >> THEN best
  ELSE ReduceRecall(PickRecall(best, Head(rest)), Tail(rest))

getBestConfig(rs, latencyBudgetMs) ==
  LET eligible == Eligible(rs, latencyBudgetMs)
  IN  IF Len(eligible) = 0
      THEN ReduceFaster(Head(rs), Tail(rs))
      ELSE ReduceRecall(Head(eligible), Tail(eligible))

----------------------------------------------------------------------------
(* seedUsers.ts: the corpus *)

\* `user_${index.toString().padStart(3, '0')}`
UserId(index) == IF index = 0 THEN "user_000"
                 ELSE IF index = 1 THEN "user_001"
                 ELSE IF index = 2 THEN "user_002"
                 ELSE IF index = 3 THEN "user_003"
                 ELSE "user_004"

SeedIds == { UserId(i) : i \in 0..(MaxSeed - 1) }

\* The ids upsertUser is called with
Ids == { UserId(0), UserId(1) }

\* What a user carries besides the id: the trait vector (two of its
\* components) and the confidence, in tenths.  name, age, uni, traits and
\* interests are read by nothing modelled here.
Profiles == { [vector |-> << 1, 0 >>, confidence |-> 5],
              [vector |-> << 1, 2 >>, confidence |-> 10] }

User(id, p) == [id |-> id, vector |-> p.vector, confidence |-> p.confidence]

UserValues == { User(id, p) : id \in Ids, p \in Profiles }

\* users.findIndex(u => u.id === user.id), 0-based, -1 when there is none
RECURSIVE findIndexFrom(_, _, _)
findIndexFrom(us, id, i) ==
  IF i > Len(us) THEN -1
  ELSE IF us[i].id = id THEN i - 1
  ELSE findIndexFrom(us, id, i + 1)

findIndex(us, id) == findIndexFrom(us, id, 1)

\* Replaces in place, and puts a new user first.
UnshiftNew(us, user) ==
  LET existingIndex == findIndex(us, user.id)
  IN  IF existingIndex >= 0
      THEN [us EXCEPT ![existingIndex + 1] = user]
      ELSE << user >> \o us

\* Always takes the push branch.
AlwaysPush(us, user) == Append(us, user)

\* The array after upsertUser(user)
upsertUser(us, user) ==
  LET existingIndex == findIndex(us, user.id)
  IN  IF existingIndex >= 0
      THEN [us EXCEPT ![existingIndex + 1] = user]
      ELSE Append(us, user)

\* initializeUsers: count users, ids user_000 .. in order
SeededCorpora ==
  UNION { { [ i \in 1..n |-> User(UserId(i - 1), ps[i]) ] : ps \in [1..n -> Profiles] }
          : n \in 0..MaxSeed }

\* What the index can hold: nothing, the label of a user, the same label
\* twice, and a label (`ghost`) of no user of the corpus
IndexContents ==
  { << >>, << UserId(0) >>, << UserId(0), UserId(0) >>, << "ghost", UserId(0) >> }

\* The clock advances by one of these while a search runs.
LatencyValues == { 0, 5, 10 }

\* The budgets of a request, in hundredths of a millisecond: 0 and the
\* route's default of 50 ms.
LatencyBudgets == { 0, 5000 }

----------------------------------------------------------------------------
(* What the variables of a component hold in a specification that does not  *)
(* run it.                                                                   *)

\* The graph of the index is not looked into: the index is the list indexIds.
IndexNotModelled ==
  /\ indexState = "Ready"
  /\ nodes = << >>
  /\ adjacency = << >>
  /\ indexConfig = << >>
  /\ pending = << >>
  /\ found = << >>
  /\ reading = {}
  /\ writing = {}

\* No call of sampleIndices is being stepped through.
SamplerIdle ==
  /\ sampleMax = 0
  /\ sampleCount = 0
  /\ indices = << >>

\* chatWithBot is not modelled.
LlmIdle ==
  /\ llmUserId = << >>
  /\ ragContext = << >>
  /\ completion = << >>
  /\ chatResponse = << >>

\* No chat request has been received.
ChatIdle ==
  /\ sessions = << >>
  /\ sessionStore = << >>
  /\ requests = << >>
  /\ reply = << >>
  /\ LlmIdle

----------------------------------------------------------------------------
(* runBenchmark as a process: one action per stretch between two awaits *)

\* Sorts the corpus itself instead of the array map() made.
CorpusSortedInPlace(us, queryVector, excludeIdx) == SortBySimDesc(queryVector, us)

\* The corpus after getExactNeighbors: it sorts the array map() made.
CorpusAfterNeighbors(us, queryVector, excludeIdx) == us

\* Enter the query at position q of sample qs: ground truth, then the search
\* is called and awaited.
BeginQuery(qs, q, c) ==
  LET queryIdx == qs[q]
      queryVector == users[queryIdx + 1].vector
  IN  /\ groundTruth' = getExactNeighbors(queryVector, users, k', queryIdx)
      /\ users' = CorpusAfterNeighbors(users, queryVector, queryIdx)
      /\ queryIndices' = qs
      /\ qi' = q
      /\ ci' = c
      /\ startTime' = now'
      /\ pc' = "searching"

\* GET /tuner/benchmark calls runBenchmark (lines 62-84, up to the first await).
\* On an empty corpus no query is sampled and the metrics of the first config
\* throw.
StartBenchmark ==
  /\ pc = "idle"
  /\ numQueries' = Min2(SampleCap, Len(users))
  /\ k' = RecallK
  /\ results' = << >>
  /\ latencies' = << >>
  /\ totalHits' = 0
  /\ UNCHANGED << indexIds, now, latencyBudget, selectedConfig, indexVars,
                  samplerVars, chatVars >>
  /\ \E qs \in sampleIndices(Len(users), numQueries') :
       IF qs = << >>
       THEN /\ metricsThrow(latencies')
            /\ pc' = "failed"
            /\ error' = "TypeError"
            /\ queryIndices' = qs
            /\ ci' = 1
            /\ UNCHANGED << users, qi, groundTruth, startTime >>
       ELSE /\ BeginQuery(qs, 1, 1)
            /\ UNCHANGED error

\* The awaited search rejects: runBenchmark has no handler, so it rejects too
\* and the route answers 500.
SearchFails ==
  /\ pc = "searching"
  /\ searchThrows(indexIds)
  /\ pc' = "failed"
  /\ error' = "SearchError"
  /\ UNCHANGED << users, indexIds, now, numQueries, k, ci, queryIndices, qi,
                  groundTruth, startTime, latencies, totalHits, results,
                  latencyBudget, selectedConfig, indexVars, samplerVars,
                  chatVars >>

\* The awaited search resolves after d ticks (lines 85-92), and the sweep runs
\* on to its next await or to its end (lines 95-111, 70-84), where the route
\* selects a config for the budget of the request.
SearchReturns(d) ==
  /\ pc = "searching"
  /\ ~searchThrows(indexIds)
  /\ now + d <= MaxClock
  /\ now' = now + d
  /\ LET config == CONFIGS[ci]
         approxResults == searchWithEf(indexIds, users[queryIndices[qi] + 1].vector,
                                       k, config.efSearch)
         lat == Append(latencies, now' - startTime)
         hits == totalHits + Hits(groundTruth, approxResults)
     IN  /\ UNCHANGED << indexIds, numQueries, k, error, indexVars, samplerVars,
                         chatVars >>
         /\ IF qi < Len(queryIndices)
            THEN /\ latencies' = lat
                 /\ totalHits' = hits
                 /\ BeginQuery(queryIndices, qi + 1, ci)
                 /\ UNCHANGED << results, latencyBudget, selectedConfig >>
            ELSE /\ results' = Append(results, ConfigResult(config, lat, hits, numQueries, k))
                 /\ latencies' = << >>
                 /\ totalHits' = 0
                 /\ IF ci < Len(CONFIGS)
                    THEN /\ \E qs \in sampleIndices(Len(users), numQueries) :
                              BeginQuery(qs, 1, ci + 1)
                         /\ UNCHANGED << latencyBudget, selectedConfig >>
                    ELSE /\ pc' = "done"
                         /\ \E b \in LatencyBudgets :
                              /\ latencyBudget' = << b >>
                              /\ selectedConfig' = << getBestConfig(results', b) >>
                         /\ UNCHANGED << users, ci, queryIndices, qi, groundTruth,
                                         startTime >>

\* Some caller upserts a user; it can run whenever the sweep is at an await.
UpsertUser(user) ==
  /\ users' = upsertUser(users, user)
  /\ UNCHANGED << indexIds, now, pc, error, numQueries, k, ci, queryIndices, qi,
                  groundTruth, startTime, latencies, totalHits, results,
                  latencyBudget, selectedConfig, indexVars, samplerVars,
                  chatVars >>

Init ==
  /\ ChatIdle
  /\ users \in SeededCorpora
  /\ indexIds \in IndexContents
  /\ now = 0
  /\ pc = "idle"
  /\ error = "none"
  /\ numQueries = 0
  /\ k = RecallK
  /\ ci = 0
  /\ queryIndices = << >>
  /\ qi = 0
  /\ groundTruth = << >>
  /\ startTime = 0
  /\ latencies = << >>
  /\ totalHits = 0
  /\ results = << >>
  /\ latencyBudget = << >>
  /\ selectedConfig = << >>
  /\ IndexNotModelled
  /\ SamplerIdle

Next ==
  \/ StartBenchmark
  \/ SearchFails
  \/ \E d \in LatencyValues : SearchReturns(d)
  \/ \E user \in UserValues : UpsertUser(user)

Spec == Init /\ [][Next]_vars

----------------------------------------------------------------------------
(* One sweep on its own: no caller upserts meanwhile, and the live index    *)
(* searchWithEf reads was built with some config of the catalog.            *)

LiveIndexConfigs == { << CONFIGS[i] >> : i \in 1..Len(CONFIGS) }

InitSweep ==
  /\ ChatIdle
  /\ users \in SeededCorpora
  /\ indexIds \in IndexContents
  /\ indexConfig \in LiveIndexConfigs
  /\ indexState = "Ready"
  /\ nodes = << >>
  /\ adjacency = << >>
  /\ pending = << >>
  /\ found = << >>
  /\ reading = {}
  /\ writing = {}
  /\ now = 0
  /\ pc = "idle"
  /\ error = "none"
  /\ numQueries = 0
  /\ k = RecallK
  /\ ci = 0
  /\ queryIndices = << >>
  /\ qi = 0
  /\ groundTruth = << >>
  /\ startTime = 0
  /\ latencies = << >>
  /\ totalHits = 0
  /\ results = << >>
  /\ latencyBudget = << >>
  /\ selectedConfig = << >>
  /\ SamplerIdle

NextSweep ==
  \/ StartBenchmark
  \/ SearchFails
  \/ \E d \in LatencyValues : SearchReturns(d)

SpecSweep == InitSweep /\ [][NextSweep]_vars

----------------------------------------------------------------------------
(* getBestConfig on its own: every result list up to MaxResults entries,   *)
(* entry i being what runBenchmark pushes for CONFIGS[i] after one query.   *)

\* One measured latency, in ticks: each hundredth up to MaxSelectP95, and a
\* positive one that toFixed(2) rounds to 0
SelectLatencies == { 10 * j : j \in 0..MaxSelectP95 } \cup { 4 }

SelectResults(i) ==
  { ConfigResult(CONFIGS[i], << l >>, h, 1, RecallK) :
      l \in SelectLatencies, h \in 0..MaxSelectHits }

\* The lists of exactly n results
RECURSIVE SelectListsOfLen(_)
SelectListsOfLen(n) ==
  IF n = 0 THEN { << >> }
  ELSE { Append(rs, r) : rs \in SelectListsOfLen(n - 1), r \in SelectResults(n) }

\* Budgets in hundredths; -1 is a budget no latency meets, as a negative
\* number or NaN is
SelectBudgets == -1..(MaxSelectP95 + 1)

InitSelect ==
  /\ ChatIdle
  /\ \E n \in 1..MaxResults : results \in SelectListsOfLen(n)
  /\ latencyBudget \in { << b >> : b \in SelectBudgets }
  /\ selectedConfig = << >>
  /\ pc = "select"
  /\ users = << >>
  /\ indexIds = << >>
  /\ now = 0
  /\ error = "none"
  /\ numQueries = 0
  /\ k = RecallK
  /\ ci = 0
  /\ queryIndices = << >>
  /\ qi = 0
  /\ groundTruth = << >>
  /\ startTime = 0
  /\ latencies = << >>
  /\ totalHits = 0
  /\ IndexNotModelled
  /\ SamplerIdle

SelectConfig ==
  /\ pc = "select"
  /\ selectedConfig' = << getBestConfig(results, latencyBudget[1]) >>
  /\ pc' = "selected"
  /\ UNCHANGED << users, indexIds, now, error, numQueries, k, ci, queryIndices, qi,
                  groundTruth, startTime, latencies, totalHits, results,
                  latencyBudget, indexVars, samplerVars, chatVars >>

NextSelect == SelectConfig

SpecSelect == InitSelect /\ [][NextSelect]_vars

----------------------------------------------------------------------------
(* getExactNeighbors on its own: every corpus up to MaxCorpus users, every  *)
(* member as the query, every k up to MaxK.                                 *)

OracleVectors == { << 0, 0 >>, << 1, 0 >>, << 0, 1 >>, << 1, 1 >>, << 1, 2 >>, << 2, 2 >> }

OracleCorpora ==
  UNION { { [ i \in 1..n |-> [id |-> UserId(i - 1), vector |-> vs[i], confidence |-> 5] ]
              : vs \in [1..n -> OracleVectors] }
          : n \in 1..MaxCorpus }

InitOracle ==
  /\ ChatIdle
  /\ users \in OracleCorpora
  /\ k \in 0..MaxK
  /\ queryIndices \in { << q >> : q \in 0..(MaxCorpus - 1) }
  /\ queryIndices[1] < Len(users)
  /\ qi = 1
  /\ groundTruth = << >>
  /\ pc = "oracle"
  /\ indexIds = << >>
  /\ now = 0
  /\ error = "none"
  /\ numQueries = 0
  /\ ci = 0
  /\ startTime = 0
  /\ latencies = << >>
  /\ totalHits = 0
  /\ results = << >>
  /\ latencyBudget = << >>
  /\ selectedConfig = << >>
  /\ IndexNotModelled
  /\ SamplerIdle

ExactNeighbors ==
  /\ pc = "oracle"
  /\ groundTruth' = getExactNeighbors(users[queryIndices[qi] + 1].vector, users, k,
                                      queryIndices[qi])
  /\ pc' = "oracleDone"
  /\ UNCHANGED << users, indexIds, now, error, numQueries, k, ci, queryIndices, qi,
                  startTime, latencies, totalHits, results, latencyBudget,
                  selectedConfig, indexVars, samplerVars, chatVars >>

NextOracle == ExactNeighbors

SpecOracle == InitOracle /\ [][NextOracle]_vars

----------------------------------------------------------------------------
(* The metrics of one config on their own (lines 95-107): every number of   *)
(* queries a sweep can have, latencies of 0, of 0.004 ms (reported as 0),   *)
(* of 0.01 ms and of 0.02 ms, in ascending and in descending order of       *)
(* measurement.                                                             *)

\* n latencies: zeros, then fours, then tens, then twenties
LatencyRun(n, zeros, fours, tens) ==
  [ i \in 1..n |-> IF i <= zeros THEN 0
                   ELSE IF i <= zeros + fours THEN 4
                   ELSE IF i <= zeros + fours + tens THEN 10
                   ELSE 20 ]

Reversed(s) == [ i \in 1..Len(s) |-> s[Len(s) + 1 - i] ]

InitMetrics ==
  /\ ChatIdle
  /\ numQueries \in 1..SampleCap
  /\ \E zeros \in 0..numQueries : \E fours \in 0..1 : \E tens \in 0..numQueries :
       /\ zeros + fours + tens <= numQueries
       /\ latencies \in { LatencyRun(numQueries, zeros, fours, tens),
                          Reversed(LatencyRun(numQueries, zeros, fours, tens)) }
  /\ totalHits = 0
  /\ results = << >>
  /\ ci = 1
  /\ k = RecallK
  /\ pc = "metrics"
  /\ users = << >>
  /\ indexIds = << >>
  /\ now = 0
  /\ error = "none"
  /\ queryIndices = << >>
  /\ qi = 0
  /\ groundTruth = << >>
  /\ startTime = 0
  /\ latencyBudget = << >>
  /\ selectedConfig = << >>
  /\ IndexNotModelled
  /\ SamplerIdle

\* Lines 95-107: sort, average, p95, push
ComputeMetrics ==
  /\ pc = "metrics"
  /\ results' = Append(results, ConfigResult(CONFIGS[ci], latencies, totalHits,
                                             numQueries, k))
  /\ latencies' = SortAsc(latencies)
  /\ pc' = "metricsDone"
  /\ UNCHANGED << users, indexIds, now, error, numQueries, k, ci, queryIndices, qi,
                  groundTruth, startTime, totalHits, latencyBudget, selectedConfig,
                  indexVars, samplerVars, chatVars >>

NextMetrics == ComputeMetrics

SpecMetrics == InitMetrics /\ [][NextMetrics]_vars

----------------------------------------------------------------------------
(* sampleIndices step by step, as runBenchmark calls it (line 72): max is    *)
(* the corpus size, count is min(20, max).  pc is "sampling" in the loop and *)
(* "sampled" once it has returned.                                           *)

MaxSampleMax == 4     \* corpus sizes up to which every draw is followed

\* A corpus larger than the cap on the sample
LargeCorpus == SampleCap + 1

\* Math.floor(Math.random() * max).  Every index below max for the small
\* corpora; for the large one the next two indices in ascending order and
\* index 0, which is enough to draw new indices, repeated ones and samples
\* that differ.
RandomIndices(max, ind) ==
  IF max <= MaxSampleMax THEN 0..(max - 1)
  ELSE { Len(ind), Len(ind) + 1, 0 } \cap 0..(max - 1)

\* if (!indices.includes(idx)) indices.push(idx)
pushIfNew(ind, idx) == IF idx \in RangeOf(ind) THEN ind ELSE Append(ind, idx)

\* One pass of the while loop with the draw idx
Draw(idx) ==
  /\ pc = "sampling"
  /\ Len(indices) < sampleCount
  /\ indices' = pushIfNew(indices, idx)
  /\ UNCHANGED << users, error, pc, sampleMax, sampleCount, indexIds, now, numQueries,
                  k, ci, queryIndices, qi, groundTruth, startTime, latencies,
                  totalHits, results, latencyBudget, selectedConfig, indexVars,
                  chatVars >>

DrawSome == \E idx \in RandomIndices(sampleMax, indices) : Draw(idx)

\* The loop condition fails: return indices
ReturnIndices ==
  /\ pc = "sampling"
  /\ ~(Len(indices) < sampleCount)
  /\ pc' = "sampled"
  /\ queryIndices' = indices
  /\ UNCHANGED << users, error, samplerVars, indexIds, now, numQueries, k, ci, qi,
                  groundTruth, startTime, latencies, totalHits, results,
                  latencyBudget, selectedConfig, indexVars, chatVars >>

InitSample ==
  /\ ChatIdle
  /\ sampleMax \in 0..MaxSampleMax \cup { LargeCorpus }
  /\ sampleCount = Min2(SampleCap, sampleMax)
  /\ numQueries = sampleCount
  /\ indices = << >>
  /\ pc = "sampling"
  /\ users = << >>
  /\ indexIds = << >>
  /\ now = 0
  /\ error = "none"
  /\ k = RecallK
  /\ ci = 1
  /\ queryIndices = << >>
  /\ qi = 0
  /\ groundTruth = << >>
  /\ startTime = 0
  /\ latencies = << >>
  /\ totalHits = 0
  /\ results = << >>
  /\ latencyBudget = << >>
  /\ selectedConfig = << >>
  /\ IndexNotModelled

NextSample == DrawSome \/ ReturnIndices

SpecSample == InitSample /\ [][NextSample]_vars

\* A fair random source: while an index is missing from the sample, one that
\* is not yet in it is drawn sooner or later; and the function returns once
\* its loop is over.
SpecSampleFair == SpecSample /\ WF_vars(DrawSome) /\ WF_vars(ReturnIndices)

----------------------------------------------------------------------------
(* ANNIndex (vectorStore): the graph index of the design, section 4.2.      *)
(* A node is [id, vector]; adjacency maps a node id to the ids of its       *)
(* neighbours, strongest edge first.                                        *)

\* cosineSimilarity(a, b) squared, as the exact fraction num / den; 0 when
\* either magnitude is 0.  All components are >= 0, so the squares order as
\* the similarities do.
cosineSimilaritySq(a, b) ==
  IF Dot(a, a) = 0 \/ Dot(b, b) = 0 THEN [num |-> 0, den |-> 1]
  ELSE [num |-> Dot(a, b) * Dot(a, b), den |-> Dot(a, a) * Dot(b, b)]

NodeOf(entity) == [id |-> entity.id, vector |-> entity.vector]

NodeIds(ns) == { ns[i].id : i \in 1..Len(ns) }

NodeById(ns, id) == CHOOSE n \in RangeOf(ns) : n.id = id

\* The nodes of a list of ids, in the order of the list
NodesOfIds(ns, ids) == [ i \in 1..Len(ids) |-> NodeById(ns, ids[i]) ]

IdsOfNodes(s) == [ i \in 1..Len(s) |-> s[i].id ]

RECURSIVE FilterNotIn(_, _)
FilterNotIn(ids, excluded) ==
  IF ids = << >> THEN << >>
  ELSE IF Head(ids) \in excluded THEN FilterNotIn(Tail(ids), excluded)
  ELSE << Head(ids) >> \o FilterNotIn(Tail(ids), excluded)

\* One expansion of the beam search: each unvisited neighbour that fits into
\* the `ef` best so far joins the frontier and the best list.
RECURSIVE Expand(_, _, _, _, _)
Expand(q, ef, new, frontier, best) ==
  IF new = << >> THEN [frontier |-> frontier, best |-> best]
  ELSE LET e == Head(new)
           fits == Len(best) < ef \/ SimGreater(q, e.vector, best[Len(best)].vector)
       IN  IF fits
           THEN Expand(q, ef, Tail(new), InsertDesc(q, e, frontier),
                       Slice0(InsertDesc(q, e, best), ef))
           ELSE Expand(q, ef, Tail(new), frontier, best)

\* Best-first beam search of width ef: stops when the frontier is exhausted
\* or its most promising candidate is worse than the worst of a full best
\* list.  Returns the best list, highest similarity first.
RECURSIVE Beam(_, _, _, _, _, _, _)
Beam(q, ns, adj, ef, visited, frontier, best) ==
  IF frontier = << >> THEN best
  ELSE LET c == Head(frontier)
       IN  IF Len(best) >= ef /\ SimGreater(q, best[Len(best)].vector, c.vector)
           THEN best
           ELSE LET newIds == FilterNotIn(adj[c.id], visited)
                    x == Expand(q, ef, NodesOfIds(ns, newIds), Tail(frontier), best)
                IN  Beam(q, ns, adj, ef, visited \cup RangeOf(newIds), x.frontier, x.best)

\* The beam search from the entry point, the first node inserted
BeamFromEntry(q, ns, adj, ef) ==
  IF ns = << >> \/ ef < 1 THEN << >>
  ELSE Beam(q, ns, adj, ef, { ns[1].id }, << ns[1] >>, << ns[1] >>)

\* Returns the whole best list of the beam.
searchUncut(ns, adj, queryVector, kk, efSearch) ==
  LET best == BeamFromEntry(queryVector, ns, adj, efSearch)
  IN  [ i \in 1..Len(best) |->
          [id |-> best[i].id,
           similarity |-> cosineSimilaritySq(queryVector, best[i].vector)] ]

\* search(queryVector, k, efSearch) on a graph with at least one node
search(ns, adj, queryVector, kk, efSearch) ==
  LET best == Slice0(BeamFromEntry(queryVector, ns, adj, efSearch), kk)
  IN  [ i \in 1..Len(best) |->
          [id |-> best[i].id,
           similarity |-> cosineSimilaritySq(queryVector, best[i].vector)] ]

\* The neighbour ids of node n, strongest edge first, never cut.
PruneUncut(ns, n, ids, M) ==
  IdsOfNodes(SortBySimDesc(n.vector, NodesOfIds(ns, ids)))

\* The neighbour ids of node n, strongest edge first, cut to the M strongest
Prune(ns, n, ids, M) ==
  IdsOfNodes(Slice0(SortBySimDesc(n.vector, NodesOfIds(ns, ids)), M))

\* Each of nbrs gets the edge back to id, and its list is pruned to M.
RECURSIVE AddBackEdges(_, _, _, _, _)
AddBackEdges(ns, adj, nbrs, id, M) ==
  IF nbrs = << >> THEN adj
  ELSE LET n == Head(nbrs)
           withEdge == IF id \in RangeOf(adj[n]) THEN adj[n] ELSE Append(adj[n], id)
       IN  AddBackEdges(ns, [adj EXCEPT ![n] = Prune(ns, NodeById(ns, n), withEdge, M)],
                        Tail(nbrs), id, M)

\* The greedy-connect step for node e: a beam search of width efConstruction
\* over the current graph, edges to the M nearest nodes found, edges back.
\* A node whose id is present is relocated: it keeps its position, takes the
\* new vector and new edges; edges of other nodes to it stay.
Connect(ns, adj, e, config) ==
  LET present == e.id \in NodeIds(ns)
      moved == [ i \in 1..Len(ns) |-> IF ns[i].id = e.id THEN e ELSE ns[i] ]
      cands == BeamFromEntry(e.vector, moved, adj, config.efConstruction)
      nbrs == Slice0(FilterNotIn(IdsOfNodes(cands), { e.id }), config.M)
      ns1 == IF present THEN moved ELSE Append(ns, e)
      adj1 == [ id \in NodeIds(ns1) |-> IF id = e.id THEN nbrs ELSE adj[id] ]
  IN  [nodes |-> ns1, adjacency |-> AddBackEdges(ns1, adj1, nbrs, e.id, config.M)]

\* The graph with no node
EmptyGraph == [nodes |-> << >>, adjacency |-> [ id \in {} |-> << >> ]]

\* build(entities, config) as one computation: the entities connected one
\* after the other, in sequence order, starting from the graph g
RECURSIVE BuildFrom(_, _, _)
BuildFrom(g, entities, config) ==
  IF entities = << >> THEN g
  ELSE BuildFrom(Connect(g.nodes, g.adjacency, Head(entities), config),
                 Tail(entities), config)

\* The corpus in reverse iteration order.
EntitiesReversed(us) == [ i \in 1..Len(us) |-> NodeOf(us[Len(us) + 1 - i]) ]

\* The entities a build inserts: the corpus, in its iteration order
EntitiesOf(us) == [ i \in 1..Len(us) |-> NodeOf(us[i]) ]

\* A build that goes on from the graph it finds.
GraphKept(g) == g

\* The graph a build starts from: the previous one is discarded
GraphAtBuildStart(g) == EmptyGraph

\* A mutator that waits only for other mutators.
MayMutateWhileRead(rd, wr) == wr = {}

\* Reader-writer discipline: a mutator starts when no search is in flight
\* and no other mutator is
MayMutate(rd, wr) == rd = {} /\ wr = {}

\* Reader-writer discipline: a search starts when no mutator is in flight
MaySearch(wr) == wr = {}

----------------------------------------------------------------------------
(* The index as a process: build, upsert and search of concurrent callers *)

MaxIndexSeed == 1     \* users in the corpus before the first build

\* The profiles upserted: user_000 moves between two vectors, the others
\* have one each.
IndexUsers ==
  { [id |-> UserId(0), vector |-> << 1, 0 >>, confidence |-> 5],
    [id |-> UserId(0), vector |-> << 0, 1 >>, confidence |-> 5],
    [id |-> UserId(1), vector |-> << 1, 2 >>, confidence |-> 5],
    [id |-> UserId(2), vector |-> << 0, 1 >>, confidence |-> 5] }

\* initializeUsers: the first MaxIndexSeed ids at most, in order
IndexSeeds ==
  { us \in UNION { [1..n -> IndexUsers] : n \in 0..MaxIndexSeed } :
      \A i \in 1..Len(us) : us[i].id = UserId(i - 1) }

\* Configs a build is given: one whose M and efConstruction a small graph
\* reaches, and the first of the catalog
BuildConfigs ==
  { [M |-> 1, efConstruction |-> 1, efSearch |-> 1], CONFIGS[1] }

\* search calls: (queryVector, k, efSearch)
SearchQueries ==
  { [queryVector |-> << 1, 0 >>, k |-> 1, efSearch |-> 2],
    [queryVector |-> << 1, 2 >>, k |-> 2, efSearch |-> 20] }

tunerLocals == << indexIds, now, pc, numQueries, k, ci, queryIndices, qi, groundTruth,
                  startTime, latencies, totalHits, results, latencyBudget,
                  selectedConfig >>

BuildWriter == [op |-> "build", entity |-> << >>]

UpsertWriter(user) == [op |-> "upsert", entity |-> << user >>]

\* build(entities, config) is entered: the state is Building, the previous
\* graph is gone.
BeginBuild(config) ==
  /\ MayMutate(reading, writing)
  /\ writing' = writing \cup { BuildWriter }
  /\ indexState' = "Building"
  /\ LET g == GraphAtBuildStart([nodes |-> nodes, adjacency |-> adjacency])
     IN  /\ nodes' = g.nodes
         /\ adjacency' = g.adjacency
  /\ pending' = EntitiesOf(users)
  /\ indexConfig' = << config >>
  /\ UNCHANGED << users, error, found, reading, tunerLocals, samplerVars,
                  chatVars >>

\* The build inserts its next entity.
BuildInsert ==
  /\ indexState = "Building"
  /\ BuildWriter \in writing
  /\ pending # << >>
  /\ LET g == Connect(nodes, adjacency, Head(pending), indexConfig[1])
     IN  /\ nodes' = g.nodes
         /\ adjacency' = g.adjacency
  /\ pending' = Tail(pending)
  /\ UNCHANGED << users, error, found, reading, writing, indexState, indexConfig,
                  tunerLocals, samplerVars, chatVars >>

\* The build has inserted every entity: the state is Ready.
EndBuild ==
  /\ indexState = "Building"
  /\ BuildWriter \in writing
  /\ pending = << >>
  /\ indexState' = "Ready"
  /\ writing' = writing \ { BuildWriter }
  /\ UNCHANGED << users, error, found, reading, nodes, adjacency, pending,
                  indexConfig, tunerLocals, samplerVars, chatVars >>

\* A profile is upserted: the corpus takes it, then the index is to.
BeginUpsert(user) ==
  /\ indexState = "Ready"
  /\ MayMutate(reading, writing)
  /\ writing' = writing \cup { UpsertWriter(user) }
  /\ users' = upsertUser(users, user)
  /\ UNCHANGED << error, found, reading, indexState, nodes, adjacency, pending,
                  indexConfig, tunerLocals, samplerVars, chatVars >>

\* upsert(entity) connects the entity into the current graph.
EndUpsert(user) ==
  /\ UpsertWriter(user) \in writing
  /\ LET g == Connect(nodes, adjacency, NodeOf(user), indexConfig[1])
     IN  /\ nodes' = g.nodes
         /\ adjacency' = g.adjacency
  /\ writing' = writing \ { UpsertWriter(user) }
  /\ UNCHANGED << users, error, found, reading, indexState, pending, indexConfig,
                  tunerLocals, samplerVars, chatVars >>

\* search(queryVector, k, efSearch) is called and starts to read the graph.
BeginSearch(query) ==
  /\ indexState \in { "Empty", "Ready" }
  /\ MaySearch(writing)
  /\ query \notin reading
  /\ reading' = reading \cup { query }
  /\ UNCHANGED << users, error, found, writing, indexState, nodes, adjacency,
                  pending, indexConfig, tunerLocals, samplerVars, chatVars >>

\* The search returns its list, or fails with EmptyIndex on a graph with no
\* node.
EndSearch(query) ==
  /\ query \in reading
  /\ reading' = reading \ { query }
  /\ IF searchThrows(nodes)
     THEN /\ error' = "EmptyIndex"
          /\ found' = << query >>
     ELSE /\ error' = "none"
          /\ found' = << query, search(nodes, adjacency, query.queryVector, query.k,
                                       query.efSearch) >>
  /\ UNCHANGED << users, writing, indexState, nodes, adjacency, pending,
                  indexConfig, tunerLocals, samplerVars, chatVars >>

InitIndex ==
  /\ ChatIdle
  /\ users \in IndexSeeds
  /\ indexState = "Empty"
  /\ nodes = EmptyGraph.nodes
  /\ adjacency = EmptyGraph.adjacency
  /\ indexConfig = << >>
  /\ pending = << >>
  /\ found = << >>
  /\ reading = {}
  /\ writing = {}
  /\ error = "none"
  /\ pc = "index"
  /\ indexIds = << >>
  /\ now = 0
  /\ numQueries = 0
  /\ k = RecallK
  /\ ci = 0
  /\ queryIndices = << >>
  /\ qi = 0
  /\ groundTruth = << >>
  /\ startTime = 0
  /\ latencies = << >>
  /\ totalHits = 0
  /\ results = << >>
  /\ latencyBudget = << >>
  /\ selectedConfig = << >>
  /\ SamplerIdle

NextIndex ==
  \/ \E config \in BuildConfigs : BeginBuild(config)
  \/ BuildInsert
  \/ EndBuild
  \/ \E user \in IndexUsers : BeginUpsert(user)
  \/ \E user \in IndexUsers : EndUpsert(user)
  \/ \E query \in SearchQueries : BeginSearch(query)
  \/ \E query \in SearchQueries : EndSearch(query)

SpecIndex == InitIndex /\ [][NextIndex]_vars

\* A build is a computation that runs on until it returns.
BuildAdvances ==
  indexState = "Building" /\ pending # << >> /\ pending' = Tail(pending)

BuildReturns ==
  indexState = "Building" /\ pending = << >> /\ indexState' = "Ready"

SpecIndexFair == SpecIndex /\ WF_pending(BuildAdvances) /\ WF_indexState(BuildReturns)

----------------------------------------------------------------------------
(* Claims about getBestConfig, under SpecSelect *)

ResultSet == RangeOf(results)

WithinBudget(r) == r.p95LatencyMs <= latencyBudget[1]

\* C1: whenever some result has p95LatencyMs <= budget, the result getBestConfig
\* returns has p95LatencyMs <= budget; when none has, the returned result has
\* the minimal p95LatencyMs of the list.
C1_BudgetRespectedOrFastest ==
  pc = "selected" =>
    LET sel == selectedConfig[1]
    IN  /\ (\E r \in ResultSet : WithinBudget(r)) => WithinBudget(sel)
        /\ (\A r \in ResultSet : ~WithinBudget(r)) =>
              \A r \in ResultSet : sel.p95LatencyMs <= r.p95LatencyMs

\* The fallback case with a choice to make: nothing meets the budget and the
\* first result of the list is not the fastest.
C1_Witness ==
  /\ pc = "selected"
  /\ \A r \in ResultSet : ~WithinBudget(r)
  /\ \E r \in ResultSet : r.p95LatencyMs < results[1].p95LatencyMs
  /\ \E r \in ResultSet : r.p95LatencyMs > selectedConfig[1].p95LatencyMs

\* C2: when some result is within the budget, the returned result is within
\* the budget, no result within the budget has a higher recall, and it is the
\* first of the list among the results within the budget of that recall.
C2_HighestRecallFirstInOrder ==
  (pc = "selected" /\ \E r \in ResultSet : WithinBudget(r)) =>
    \E i \in 1..Len(results) :
      /\ results[i] = selectedConfig[1]
      /\ WithinBudget(results[i])
      /\ \A j \in 1..Len(results) :
           WithinBudget(results[j]) => ~RecallGreater(results[j], results[i])
      /\ \A j \in 1..(i - 1) :
           WithinBudget(results[j]) => RecallGreater(results[i], results[j])

\* Two results within the budget tie at the highest, non-zero recall, the
\* earlier one is returned, and a third result is over the budget.
C2_Witness ==
  /\ pc = "selected"
  /\ Len(results) = 3
  /\ \E i, j \in 1..Len(results) :
       /\ i < j
       /\ results[i] = selectedConfig[1]
       /\ WithinBudget(results[j])
       /\ results[j].recall = results[i].recall
       /\ results[j].recall.num > 0
  /\ \E r \in ResultSet : ~WithinBudget(r)

\* C3: with a budget of 0 the returned result has the smallest p95LatencyMs of
\* the list, also when some results have a p95LatencyMs of 0.
C3_ZeroBudgetReturnsFastest ==
  (pc = "selected" /\ latencyBudget[1] = 0) =>
    \A r \in ResultSet : selectedConfig[1].p95LatencyMs <= r.p95LatencyMs

\* A budget of 0 that a result meets: a latency of 0.004 ms is reported as 0,
\* the list also holds a slower result, and the returned one is not the first.
C3_Witness ==
  /\ pc = "selected"
  /\ latencyBudget[1] = 0
  /\ results[1].p95LatencyMs > 0
  /\ selectedConfig[1].p95LatencyMs = 0
  /\ selectedConfig[1].queriesPerSecond > 0

\* Nothing meets a budget of 0 and the fastest result is not the first.
C3_WitnessNoneEligible ==
  /\ pc = "selected"
  /\ latencyBudget[1] = 0
  /\ \A r \in ResultSet : r.p95LatencyMs > 0
  /\ selectedConfig[1] # results[1]

----------------------------------------------------------------------------
(* Claims about getExactNeighbors, under SpecOracle *)

VectorOf(us, id) == (CHOOSE u \in RangeOf(us) : u.id = id).vector

\* C8: getExactNeighbors returns min(k, corpus size - 1) ids, never the id of
\* the excluded query entity, in non-increasing order of similarity to the
\* query, and no entity left out (other than the excluded one) is strictly
\* more similar to the query than a returned one.
C8_ExactNeighborsTopK ==
  pc = "oracleDone" =>
    LET q == users[queryIndices[qi] + 1]
        returned == RangeOf(groundTruth)
        others == { u.id : u \in RangeOf(users) } \ { q.id }
    IN  /\ Len(groundTruth) = Min2(k, Len(users) - 1)
        /\ Cardinality(returned) = Len(groundTruth)
        /\ returned \subseteq others
        /\ \A i, j \in 1..Len(groundTruth) :
             i < j => ~SimGreater(q.vector, VectorOf(users, groundTruth[j]),
                                            VectorOf(users, groundTruth[i]))
        /\ \A x \in returned : \A y \in others \ returned :
             ~SimGreater(q.vector, VectorOf(users, y), VectorOf(users, x))

\* k cuts the list (an entity is left out), and the nearest neighbour is not
\* the first candidate in corpus order.
C8_Witness ==
  /\ pc = "oracleDone"
  /\ Len(users) = 3
  /\ queryIndices[qi] = 0
  /\ k = 1
  /\ groundTruth = << users[3].id >>
  /\ SimGreater(users[1].vector, users[3].vector, users[2].vector)

----------------------------------------------------------------------------
(* Claims about runBenchmark and the corpus, under Spec *)

SweepStep == StartBenchmark \/ SearchFails \/ \E d \in LatencyValues : SearchReturns(d)

ConfigOf(r) == [M |-> r.M, efConstruction |-> r.efConstruction, efSearch |-> r.efSearch]

\* C4: a sweep that returns holds one result per catalog config, in catalog
\* order (8 of them), and every result has p95LatencyMs >= avgLatencyMs.
C4_EightResultsP95AtLeastAvg ==
  /\ pc = "done" =>
       /\ Len(results) = 8
       /\ Len(results) = Len(CONFIGS)
       /\ \A i \in 1..Len(results) : ConfigOf(results[i]) = CONFIGS[i]
  /\ \A i \in 1..Len(results) : results[i].p95LatencyMs >= results[i].avgLatencyMs

\* A finished sweep over two users in which one config has an average that
\* rounds down to 0 under a p95 of 0.01, and one measured nothing but 0.
C4_Witness ==
  /\ pc = "done"
  /\ numQueries = 2
  /\ \E r \in RangeOf(results) : r.p95LatencyMs = 1 /\ r.avgLatencyMs = 0
  /\ \E r \in RangeOf(results) : r.p95LatencyMs = 0 /\ r.queriesPerSecond = -1

\* C5: a search that throws does not abort the sweep: the sweep still ends
\* with a result for every catalog config.
C5_SearchFailureAbsorbed ==
  error = "SearchError" => (pc = "done" /\ Len(results) = Len(CONFIGS))

\* C6: runBenchmark fails with BenchmarkUnavailable if and only if the corpus
\* it was called on is empty.
C6_BenchmarkUnavailableIffEmpty ==
  pc \in { "done", "failed" } =>
    /\ (numQueries = 0) <=> (pc = "failed" /\ error = "BenchmarkUnavailable")
    /\ numQueries = 0 => results = << >>

\* C7: no step of a sweep changes the corpus.
C7_SweepLeavesCorpusUnchanged == [][SweepStep => users' = users]_vars

\* A finished sweep whose ground truth sorted two candidates into an order
\* other than the corpus order.
C7_Witness ==
  /\ pc = "done"
  /\ Len(users) >= 2
  /\ \E i \in 1..Len(users) : SortBySimDesc(users[i].vector, users) # users

IdsUnique(us) == \A i, j \in 1..Len(us) : i # j => us[i].id # us[j].id

\* C9: every id occurs at most once in the corpus; after upsertUser(user) the
\* one entry with user's id is user; an upsert of a new id grows the corpus by
\* one and an upsert of an existing id leaves its size unchanged.
C9_UpsertLastWriteWins ==
  /\ [](IdsUnique(users))
  /\ [][\A user \in UserValues : UpsertUser(user) =>
          /\ \E i \in 1..Len(users') :
               /\ users'[i] = user
               /\ \A j \in 1..Len(users') : users'[j].id = user.id => j = i
          /\ Len(users') =
               IF \E i \in 1..Len(users) : users[i].id = user.id
               THEN Len(users) ELSE Len(users) + 1]_vars

\* A corpus only upserts can make: user_001 was pushed before user_000, and
\* user_001 no longer has the profile it was pushed with or was replaced since.
C9_Witness ==
  /\ Len(users) = 2
  /\ users[1].id = UserId(1)
  /\ users[2].id = UserId(0)
  /\ users[1].confidence # users[2].confidence

\* C10: every reported recall is a fraction in [0,1]; each answered query adds
\* |approx ids /\ ground-truth ids| to the hit total of its config, the total
\* starts at 0 for each config, and the recall pushed for a config is that
\* total over k times the number of sampled queries, with k = 10.
C10_RecallIsMeanHitFraction ==
  /\ [](\A i \in 1..Len(results) :
          /\ results[i].recall.den > 0
          /\ 0 <= results[i].recall.num
          /\ results[i].recall.num <= results[i].recall.den)
  /\ [][(\E d \in LatencyValues : SearchReturns(d)) =>
          LET approx == searchWithEf(indexIds, users[queryIndices[qi] + 1].vector,
                                     k, CONFIGS[ci].efSearch)
              approxIds == { approx[i].id : i \in 1..Len(approx) }
              h == Cardinality(RangeOf(groundTruth) \cap approxIds)
          IN  IF qi < Len(queryIndices)
              THEN totalHits' = totalHits + h
              ELSE /\ totalHits' = 0
                   /\ results'[Len(results')].recall =
                        [num |-> totalHits + h, den |-> 10 * Len(queryIndices)]]_vars

\* A finished sweep on a corpus of fewer than k + 1 users in which the index
\* answered with the same id twice, one config found a true neighbour and one
\* found none.
C10_Witness ==
  /\ pc = "done"
  /\ Len(users) < k + 1
  /\ Len(indexIds) = 2 /\ indexIds[1] = indexIds[2]
  /\ \E r \in RangeOf(results) : r.recall.num > 0
  /\ \E r \in RangeOf(results) : r.recall.num = 0

\* As C10_Witness, the index answering with an id of no user.
C10_WitnessUnknownId ==
  /\ pc = "done"
  /\ "ghost" \in RangeOf(indexIds)
  /\ \E r \in RangeOf(results) : r.recall.num > 0

----------------------------------------------------------------------------
(* Claims about the index, under SpecIndex *)

CorpusIds == { users[i].id : i \in 1..Len(users) }

\* similarity a >= similarity b, both fractions with a positive denominator
SimAtLeast(a, b) == a.num * b.den >= b.num * a.den

\* C11: every search that returns a list returns at most k results, each
\* with the id of an entity of the corpus, no id twice, and the similarities
\* in non-increasing order.
C11_SearchContract ==
  Len(found) = 2 =>
    LET query == found[1]
        list == found[2]
    IN  /\ Len(list) <= query.k
        /\ \A i \in 1..Len(list) : list[i].id \in CorpusIds
        /\ \A i, j \in 1..Len(list) : i # j => list[i].id # list[j].id
        /\ \A i, j \in 1..Len(list) :
             i < j => SimAtLeast(list[i].similarity, list[j].similarity)

\* A search with k = 2 returned two results of different similarity, and one
\* with k = 1 returned one result from a graph of several nodes.
C11_Witness ==
  /\ Len(found) = 2
  /\ found[1].k = 2
  /\ Len(found[2]) = 2
  /\ ~SimAtLeast(found[2][2].similarity, found[2][1].similarity)
  /\ Len(nodes) = 3

graphVars == << indexState, nodes, adjacency, indexConfig, pending >>

\* C12: a search on an index into which nothing was ever inserted fails with
\* EmptyIndex, returns no list, and leaves the index as it was.
C12_EmptyIndexFails ==
  [][\A query \in SearchQueries :
       (EndSearch(query) /\ nodes = << >>) =>
         /\ error' = "EmptyIndex"
         /\ found' = << query >>
         /\ UNCHANGED graphVars]_vars

\* Such a search has failed, once before any build and once on an index
\* built from an empty corpus.
C12_Witness ==
  /\ error = "EmptyIndex"
  /\ Len(found) = 1
  /\ nodes = << >>
  /\ indexState = "Empty"

C12_WitnessBuiltEmpty ==
  /\ error = "EmptyIndex"
  /\ Len(found) = 1
  /\ nodes = << >>
  /\ indexState = "Ready"

\* C13: the lifecycle is Empty -> Building -> Ready.  The only steps of the
\* state are Empty to Building, Ready to Building and Building to Ready, so
\* none leads back to Empty; a build that is entered starts from a graph with
\* no node and no edge; every build ends in Ready; and an index that is Ready
\* takes every search, and every upsert once the calls in flight have
\* drained.
C13_Lifecycle ==
  /\ [][\/ indexState' = indexState
        \/ indexState \in { "Empty", "Ready" } /\ indexState' = "Building"
        \/ indexState = "Building" /\ indexState' = "Ready"]_vars
  /\ [][(indexState # "Building" /\ indexState' = "Building") =>
          (nodes' = << >> /\ DOMAIN adjacency' = {})]_vars
  /\ [](indexState = "Building" => <>(indexState = "Ready"))
  /\ []((indexState = "Ready" /\ writing = {}) =>
          /\ \A query \in SearchQueries \ reading : ENABLED BeginSearch(query)
          /\ reading = {} => \A user \in IndexUsers : ENABLED BeginUpsert(user))

\* A build was entered on an index whose previous graph had answered a
\* search, and the graph is empty again.
C13_Witness ==
  /\ indexState = "Building"
  /\ nodes = << >>
  /\ pending # << >>
  /\ Len(found) = 2
  /\ Len(found[2]) >= 1

\* The graph a build from scratch gives for the corpus and the config of the
\* index, computed in one go
GraphFromScratch ==
  BuildFrom([nodes |-> << >>, adjacency |-> << >>],
            [ i \in 1..Len(users) |-> NodeOf(users[i]) ], indexConfig[1])

C15_ReadersExcludeWriter ==
  /\ writing # {} => reading = {}
  /\ Cardinality(writing) <= 1

\* Two searches traverse a graph of several nodes at the same time.
C15_Witness ==
  /\ Cardinality(reading) = 2
  /\ writing = {}
  /\ indexState = "Ready"
  /\ Len(nodes) >= 2

\* An upsert is in flight on a graph that answered a search before.
C15_WitnessUpsert ==
  /\ \E w \in writing : w.op = "upsert"
  /\ reading = {}
  /\ Len(found) = 2

----------------------------------------------------------------------------
(* Claims about the sweep and the catalog *)

\* The configs a finished sweep has tested
TestedConfigs == { ConfigOf(results[i]) : i \in 1..Len(results) }

\* C16: the configs GET /tuner/configs lists are the (M, efConstruction,
\* efSearch) triples a sweep tests.
C16_ConfigsRouteListsTested ==
  pc = "done" => RangeOf(configs) = TestedConfigs

\* What of a config shapes the graph
BuildKey(c) == [M |-> c.M, efConstruction |-> c.efConstruction]

\* C17: the measurements reported for a config are taken on an index built
\* with that config's M and efConstruction, so two results that differ in M
\* or efConstruction are not measured on the same graph.  (The sweep searches
\* the one index of the process, whose build config is indexConfig.)
C17_MeasuredOnOwnBuild ==
  \A i \in 1..Len(results) : BuildKey(indexConfig[1]) = BuildKey(results[i])

\* C18: within one sweep every config is measured on the same sample: from
\* one query of a sweep to the next, the set of sampled query indices stays
\* the same.
C18_SameSampleForEveryConfig ==
  [][(pc = "searching" /\ pc' = "searching") =>
       RangeOf(queryIndices') = RangeOf(queryIndices)]_vars

----------------------------------------------------------------------------
(* sampleIndices on its own, under SpecSampleFair, and within the sweep *)

\* Called with count = min(20, max), sampleIndices returns exactly count
\* pairwise distinct indices, each in [0, max), one of the arrays the sweep is
\* taken to draw; and it returns, for every max, when the random source is
\* fair.
SampleLoopCorrect ==
  /\ [](pc = "sampled" =>
          /\ Len(queryIndices) = Min2(20, sampleMax)
          /\ \A i \in 1..Len(queryIndices) :
               queryIndices[i] >= 0 /\ queryIndices[i] < sampleMax
          /\ \A i, j \in 1..Len(queryIndices) :
               i # j => queryIndices[i] # queryIndices[j]
          /\ queryIndices \in sampleIndices(sampleMax, numQueries))
  /\ <>(pc = "sampled")

\* 20 indices were sampled from a corpus of 21, index 0 not among them.
SampleLoopLarge ==
  /\ pc = "sampled"
  /\ sampleMax = 21
  /\ Len(queryIndices) = 20
  /\ 0 \notin RangeOf(queryIndices)

\* All four indices of a corpus of four were sampled, not in ascending order.
SampleLoopSmall ==
  /\ pc = "sampled"
  /\ sampleMax = 4
  /\ queryIndices = << 2, 0, 3, 1 >>

\* C19: for every config of a sweep the sample holds exactly min(20, corpus
\* size) pairwise distinct indices, each in [0, corpus size); the corpus size
\* may be any size the corpus has had up to the moment the sample is drawn.
C19_SampleOfEveryConfig ==
  [][(pc' = "searching" /\ ci' # ci) =>
       \E size \in 0..Len(users') :
         /\ Len(queryIndices') = Min2(20, size)
         /\ \A i \in 1..Len(queryIndices') :
              queryIndices'[i] >= 0 /\ queryIndices'[i] < size
         /\ \A i, j \in 1..Len(queryIndices') :
              i # j => queryIndices'[i] # queryIndices'[j]]_vars

----------------------------------------------------------------------------
(* Claims about the metrics of a config, under SpecMetrics *)

\* floor(0.95 x n), clamped to the last index n - 1
ClampedP95Index(n) ==
  LET i == CHOOSE j \in 0..n : 100 * j <= 95 * n /\ 95 * n < 100 * (j + 1)
  IN  IF i > n - 1 THEN n - 1 ELSE i

\* The element at 0-based index i of the ascending order of s: fewer than
\* i + 1 elements are below it, at least i + 1 are not above it
ElementAtRank(s, i) ==
  CHOOSE e \in RangeOf(s) :
    /\ Cardinality({ j \in 1..Len(s) : s[j] < e }) <= i
    /\ Cardinality({ j \in 1..Len(s) : s[j] <= e }) > i

\* C20: the reported p95 latency of a config is the element at index
\* floor(0.95 x N) of its N latencies in ascending order (the last element if
\* that index were out of range), as reported to two decimals, whatever the
\* latencies are, zeros included.
C20_P95IsElementAtFloorIndex ==
  [][ComputeMetrics =>
        results'[1].p95LatencyMs =
          ToFixed2(ElementAtRank(latencies, ClampedP95Index(Len(latencies))), 1)]_vars

\* The p95 of twenty latencies, measured in descending order, nineteen of
\* them zero: the element at index 19 is the one of 0.02 ms.
C20_Witness ==
  /\ pc = "metricsDone"
  /\ Len(latencies) = 20
  /\ latencies[19] = 0
  /\ latencies[20] = 20
  /\ results[1].p95LatencyMs = 2

\* The p95 of latencies that are all zero is zero.
C20_WitnessZero ==
  /\ pc = "metricsDone"
  /\ Len(latencies) = 3
  /\ latencies[3] = 0
  /\ results[1].p95LatencyMs = 0

----------------------------------------------------------------------------
(* Claims about the corpus during a sweep, under Spec *)

\* C21: while a sweep is in progress (it is at an await, between its first
\* query and its end) no upsert takes effect on the corpus it measures: the
\* corpus of one query's ground truth is the corpus of its search and of
\* every other query of the sweep.
C21_NoUpsertDuringSweep ==
  [][pc = "searching" => users' = users]_vars

----------------------------------------------------------------------------
(* Claims about the graph's neighbour lists, under SpecIndex *)

\* C22: in every graph that a build and upserts have produced, the neighbour
\* list of every node has at most config.M entries, holds only ids of
\* inserted nodes, and never holds the node's own id.
C22_NeighbourListsBounded ==
  indexConfig # << >> =>
    /\ DOMAIN adjacency = NodeIds(nodes)
    /\ \A id \in DOMAIN adjacency :
         /\ Len(adjacency[id]) <= indexConfig[1].M
         /\ RangeOf(adjacency[id]) \subseteq NodeIds(nodes)
         /\ id \notin RangeOf(adjacency[id])

\* A build with M = 1 and upserts have made a graph of three nodes: some
\* node was the nearest of two later ones and had its list pruned.
C22_Witness ==
  /\ indexState = "Ready"
  /\ writing = {}
  /\ indexConfig # << >>
  /\ indexConfig[1].M = 1
  /\ Len(nodes) = 3
  /\ \A id \in DOMAIN adjacency : Len(adjacency[id]) = 1

----------------------------------------------------------------------------
(* Claims about the catalog, under SpecSweep *)

ValidConfig(c) == c.M >= 1 /\ c.efConstruction >= c.M /\ c.efSearch >= 1

CheapToExpensive(cs) ==
  \A i, j \in 1..Len(cs) :
    i < j => /\ cs[i].M <= cs[j].M
             /\ cs[i].efConstruction <= cs[j].efConstruction
             /\ cs[i].efSearch <= cs[j].efSearch

\* C23: every config of the catalog has M >= 1, efConstruction >= M and
\* efSearch >= 1, and M, efConstruction and efSearch are each non-decreasing
\* along the catalog; so are the configs of the results a sweep has pushed.
C23_CatalogValidAndOrdered ==
  /\ \A i \in 1..Len(CONFIGS) : ValidConfig(CONFIGS[i])
  /\ CheapToExpensive(CONFIGS)
  /\ \A i \in 1..Len(results) : ValidConfig(results[i])
  /\ CheapToExpensive(results)

\* A sweep has gone through the whole catalog.
C23_Witness ==
  /\ pc = "done"
  /\ Len(results) = 8
  /\ results[1].M < results[8].M

----------------------------------------------------------------------------
(* Claims about what getBestConfig returns and leaves alone *)

\* C24: for every non-empty result list and every budget, what getBestConfig
\* returns is one of the elements of the list, and the call leaves the list
\* as it was (same elements, same order); so the selectedConfig of a
\* benchmark response is one of its configs.
C24_SelectedIsElementListUnchanged ==
  [][ /\ selectedConfig' # selectedConfig =>
           selectedConfig'[1] \in { results'[i] : i \in 1..Len(results') }
      /\ pc = "select" => results' = results ]_vars

\* A selection among several results took one that is not the first.
C24_Witness ==
  /\ pc \in { "selected", "done" }
  /\ Len(results) >= 2
  /\ selectedConfig # << >>
  /\ selectedConfig[1] # results[1]
  /\ selectedConfig[1] = results[Len(results)]

----------------------------------------------------------------------------
(* Claims about what upsertUser leaves alone, under Spec *)

\* C25: upsertUser changes at most one corpus entry: every user with another
\* id keeps its value and its position, a replaced user keeps its position,
\* and a new user is appended at the end.
C25_UpsertKeepsOrder ==
  [][\A user \in UserValues : UpsertUser(user) =>
       /\ \A i \in 1..Len(users) :
            /\ users'[i].id = users[i].id
            /\ users[i].id # user.id => users'[i] = users[i]
            /\ users[i].id = user.id => users'[i] = user
       /\ Cardinality({ i \in 1..Len(users) : users'[i] # users[i] }) <= 1
       /\ Len(users') \in { Len(users), Len(users) + 1 }
       /\ Len(users') = Len(users) + 1 => users'[Len(users')] = user]_vars

\* Two upserts of new ids made this corpus: user_001 came first and stayed
\* first when user_000 was appended after it.
C25_Witness ==
  /\ Len(users) = 2
  /\ users[1].id = UserId(1)
  /\ users[2].id = UserId(0)
  /\ users[1].confidence = 10
  /\ users[2].confidence = 10

----------------------------------------------------------------------------
(* routes/chat.ts: the onboarding session of a user and POST /chat.  The     *)
(* handler runs to its next await in one step; other requests run at the     *)
(* awaits.  Confidence is in hundredths.                                     *)

MaxRequests == 2      \* chat requests received in one behaviour
MaxInFlight == 2      \* of them, those between their first await and their reply

ALLOWED_TOPICS ==
  << "spontaneity", "planning", "social_energy", "study_style", "weekend_style",
     "comfort_zone", "group_dynamic", "conversation_depth", "curiosity",
     "nature_vs_city" >>

\* The itinerary object the route puts in a reply that is done
FIXED_ITINERARY == "FIXED_ITINERARY"

\* The userIds requests come with
ChatUsers == { "user_000", "user_001" }

\* nextTopic?.trim().toLowerCase(), on the values the model answers with: no
\* topic, an allowed topic as it is listed, one with blanks and a capital,
\* and a topic that is not allowed
TrimLower(nextTopic) ==
  CASE nextTopic = "" -> ""
    [] nextTopic = "planning" -> "planning"
    [] nextTopic = " Planning " -> "planning"
    [] nextTopic = "weather" -> "weather"

\* array.slice(-n)
SliceLast(s, n) ==
  IF Len(s) <= n THEN s ELSE [ i \in 1..n |-> s[Len(s) - n + i] ]

\* ALLOWED_TOPICS.find(topic => !asked.includes(topic)) || ''
RECURSIVE findUnasked(_, _)
findUnasked(asked, i) ==
  IF i > Len(ALLOWED_TOPICS) THEN ""
  ELSE IF ALLOWED_TOPICS[i] \notin RangeOf(asked) THEN ALLOWED_TOPICS[i]
  ELSE findUnasked(asked, i + 1)

\* Takes any allowed topic the model names, asked before or not.
sanitizeAllowedOnly(nextTopic, asked_topics) ==
  LET normalized == TrimLower(nextTopic)
  IN  IF normalized # "" /\ normalized \in RangeOf(ALLOWED_TOPICS)
      THEN normalized
      ELSE findUnasked(asked_topics, 1)

sanitizeNextTopic(nextTopic, asked_topics) ==
  LET normalized == TrimLower(nextTopic)
  IN  IF /\ normalized # ""
         /\ normalized \in RangeOf(ALLOWED_TOPICS)
         /\ normalized \notin RangeOf(asked_topics)
      THEN normalized
      ELSE findUnasked(asked_topics, 1)

\* The stage of the turn count alone.
updateStageByCount(turnCount, done) ==
  IF turnCount >= 10 THEN "wrapup"
  ELSE IF turnCount >= 6 THEN "group-fit"
  ELSE IF turnCount >= 3 THEN "preferences"
  ELSE "warmup"

updateStage(turnCount, done) ==
  IF done \/ turnCount >= 10 THEN "wrapup"
  ELSE IF turnCount >= 6 THEN "group-fit"
  ELSE IF turnCount >= 3 THEN "preferences"
  ELSE "warmup"

\* collected.add(signal) for each new signal, in order
RECURSIVE addSignals(_, _)
addSignals(collected, newSignals) ==
  IF newSignals = << >> THEN collected
  ELSE addSignals(IF Head(newSignals) \in RangeOf(collected) THEN collected
                  ELSE Append(collected, Head(newSignals)),
                  Tail(newSignals))

\* The object getSessionState stores for a user it has not seen
InitialSession ==
  [asked_topics |-> << >>, collected_signals |-> << >>, stage |-> "warmup",
   turn_count |-> 0]

\* Makes a session object at every call and stores it over the one there.
getSessionStateFresh(ss, store, userId) ==
  [sessions |-> Append(ss, InitialSession),
   sessionStore |-> [ u \in DOMAIN store \cup { userId } |->
                        IF u = userId THEN Len(ss) + 1 ELSE store[u] ],
   sessionState |-> Len(ss) + 1]

\* getSessionState(userId): the stored object, or a new one that it stores
getSessionState(ss, store, userId) ==
  IF userId \in DOMAIN store
  THEN [sessions |-> ss, sessionStore |-> store, sessionState |-> store[userId]]
  ELSE [sessions |-> Append(ss, InitialSession),
        sessionStore |-> [ u \in DOMAIN store \cup { userId } |->
                             IF u = userId THEN Len(ss) + 1 ELSE store[u] ],
        sessionState |-> Len(ss) + 1]

\* What chatWithBot resolves with: the fallback of a failed model call; an
\* answer that repeats a recent question; a confident answer that repeats a
\* recent question and names a topic that is not allowed; a confident answer
\* that is done and has an itinerary.
\* question says whether assistantMessages has a question and whether
\* isRepeatQuestion holds of it for the history of the request.
LlmResponses ==
  { [confidence |-> 10, nextTopic |-> "", done |-> FALSE, itinerary |-> "none",
     question |-> "new", signals |-> << >>],
    [confidence |-> 60, nextTopic |-> " Planning ", done |-> FALSE,
     itinerary |-> "none", question |-> "repeat", signals |-> << "outdoors" >>],
    [confidence |-> 75, nextTopic |-> "weather", done |-> FALSE,
     itinerary |-> "none", question |-> "repeat", signals |-> << >>],
    [confidence |-> 80, nextTopic |-> "planning", done |-> TRUE,
     itinerary |-> "llm", question |-> "none", signals |-> << "outdoors" >>] }

\* The session of a user after n earlier turns, served one after the other,
\* each answered with the fallback response
SessionAfter(n) ==
  [asked_topics |-> Slice0(ALLOWED_TOPICS, Min2(n, Len(ALLOWED_TOPICS))),
   collected_signals |-> << >>,
   stage |-> updateStage(n, FALSE),
   turn_count |-> n]

\* The numbers of such earlier turns a behaviour starts after
EarlierTurns == { 0, 2, 5, 9, 10 }

\* The handler's locals before any is assigned
NewRequest(userId, sessionState, turn_count) ==
  [userId |-> userId, pc |-> "llm", sessionState |-> sessionState,
   turn_count |-> turn_count, response |-> << >>, finalResponse |-> << >>,
   shouldBeDone |-> FALSE, nextTopic |-> ""]

InFlight == { r \in 1..Len(requests) : requests[r].pc # "replied" }

notChatVars == << users, error, tunerLocals, indexVars, samplerVars, llmVars >>

\* A request without userId or message: 400, nothing else happens.
BadRequest ==
  /\ pc = "chat"
  /\ reply' = << [status |-> 400] >>
  /\ UNCHANGED << sessions, sessionStore, requests, notChatVars >>

\* A request arrives (lines 143-161): the session is fetched or created, the
\* context is read from it and the first chatWithBot call is awaited.
Receive(userId) ==
  /\ pc = "chat"
  /\ Len(requests) < MaxRequests
  /\ Cardinality(InFlight) < MaxInFlight
  /\ LET got == getSessionState(sessions, sessionStore, userId)
     IN  /\ sessions' = got.sessions
         /\ sessionStore' = got.sessionStore
         /\ requests' = Append(requests,
                               NewRequest(userId, got.sessionState,
                                          got.sessions[got.sessionState].turn_count))
  /\ UNCHANGED << reply, notChatVars >>

\* Lines 187-214 for request r holding finalResponse: done and the itinerary
\* are forced when shouldBeDone, the topic is sanitized and recorded, the
\* signals are collected, the turn is counted, the stage is set, and
\* updateUserVector is awaited.  response and the session context are read
\* no more from here on.
UpdateSession(r, reqs, finalResponse, shouldBeDone) ==
  LET final == IF shouldBeDone
               THEN [finalResponse EXCEPT !.itinerary = FIXED_ITINERARY, !.done = TRUE]
               ELSE finalResponse
      idx == requests[r].sessionState
      sessionState == sessions[idx]
      nextTopic == sanitizeNextTopic(final.nextTopic, sessionState.asked_topics)
      asked == IF nextTopic # ""
               THEN SliceLast(Append(sessionState.asked_topics, nextTopic), 15)
               ELSE sessionState.asked_topics
      collected == IF final.confidence >= 60
                   THEN SliceLast(addSignals(sessionState.collected_signals,
                                             final.signals), 15)
                   ELSE sessionState.collected_signals
      turn_count == sessionState.turn_count + 1
  IN  /\ sessions' = [sessions EXCEPT ![idx] =
                        [asked_topics |-> asked,
                         collected_signals |-> collected,
                         stage |-> updateStage(turn_count, final.done),
                         turn_count |-> turn_count]]
      /\ requests' = [reqs EXCEPT ![r].pc = "store",
                                  ![r].turn_count = 0,
                                  ![r].response = << >>,
                                      ![r].finalResponse = << final >>,
                                      ![r].shouldBeDone = shouldBeDone,
                                      ![r].nextTopic = nextTopic]

\* Lines 176-190 for request r holding finalResponse: the turn is to be the
\* last when the response is confident or the session has ten turns; then a
\* response without itinerary is asked for again.
CheckDone(r, reqs, finalResponse) ==
  LET shouldBeDone == \/ finalResponse.confidence >= 75
                      \/ sessions[requests[r].sessionState].turn_count >= 10
  IN  IF shouldBeDone /\ finalResponse.itinerary = "none"
      THEN /\ requests' = [reqs EXCEPT ![r].pc = "llmDone",
                                           ![r].finalResponse = << finalResponse >>,
                                           ![r].shouldBeDone = shouldBeDone]
           /\ UNCHANGED sessions
      ELSE UpdateSession(r, reqs, finalResponse, shouldBeDone)

\* The first chatWithBot call of request r resolves (lines 161-174): a
\* question that repeats a recent one is asked for again.
LlmReturns(r, response) ==
  /\ pc = "chat"
  /\ r \in 1..Len(requests)
  /\ requests[r].pc = "llm"
  /\ IF response.question = "repeat"
     THEN /\ requests' = [requests EXCEPT ![r].pc = "llmRepeat",
                                          ![r].response = << response >>,
                                          ![r].finalResponse = << response >>]
          /\ UNCHANGED sessions
     ELSE CheckDone(r, [requests EXCEPT ![r].response = << response >>], response)
  /\ UNCHANGED << sessionStore, reply, notChatVars >>

\* The call made for the repeated question resolves (line 167).
RepeatReturns(r, response) ==
  /\ pc = "chat"
  /\ r \in 1..Len(requests)
  /\ requests[r].pc = "llmRepeat"
  /\ CheckDone(r, requests, response)
  /\ UNCHANGED << sessionStore, reply, notChatVars >>

\* The call made for the missing itinerary resolves (line 178).
DoneReturns(r, response) ==
  /\ pc = "chat"
  /\ r \in 1..Len(requests)
  /\ requests[r].pc = "llmDone"
  /\ UpdateSession(r, requests, response, requests[r].shouldBeDone)
  /\ UNCHANGED << sessionStore, reply, notChatVars >>

\* The locals of a handler that has returned
Replied(req) ==
  [req EXCEPT !.pc = "replied", !.turn_count = 0, !.response = << >>,
              !.finalResponse = << >>,
              !.shouldBeDone = FALSE, !.nextTopic = ""]

\* updateUserVector resolves and the handler returns its reply (lines 216-224).
StoreResolves(r) ==
  /\ pc = "chat"
  /\ r \in 1..Len(requests)
  /\ requests[r].pc = "store"
  /\ LET finalResponse == requests[r].finalResponse[1]
     IN  reply' = << [status |-> 200,
                      nextTopic |-> requests[r].nextTopic,
                      done |-> finalResponse.done \/ requests[r].shouldBeDone,
                      itinerary |-> IF finalResponse.itinerary = "none" THEN "null"
                                    ELSE finalResponse.itinerary] >>
  /\ requests' = [requests EXCEPT ![r] = Replied(requests[r])]
  /\ UNCHANGED << sessions, sessionStore, notChatVars >>

\* updateUserVector rejects: the catch answers 500 (lines 226-229).
StoreRejects(r) ==
  /\ pc = "chat"
  /\ r \in 1..Len(requests)
  /\ requests[r].pc = "store"
  /\ reply' = << [status |-> 500] >>
  /\ requests' = [requests EXCEPT ![r] = Replied(requests[r])]
  /\ UNCHANGED << sessions, sessionStore, notChatVars >>

InitChat ==
  /\ \E n \in EarlierTurns :
       IF n = 0
       THEN /\ sessions = << >>
            /\ sessionStore = << >>
       ELSE /\ sessions = << SessionAfter(n) >>
            /\ sessionStore = [ u \in { "user_000" } |-> 1 ]
  /\ requests = << >>
  /\ reply = << >>
  /\ LlmIdle
  /\ pc = "chat"
  /\ users = << >>
  /\ error = "none"
  /\ indexIds = << >>
  /\ now = 0
  /\ numQueries = 0
  /\ k = RecallK
  /\ ci = 0
  /\ queryIndices = << >>
  /\ qi = 0
  /\ groundTruth = << >>
  /\ startTime = 0
  /\ latencies = << >>
  /\ totalHits = 0
  /\ results = << >>
  /\ latencyBudget = << >>
  /\ selectedConfig = << >>
  /\ IndexNotModelled
  /\ SamplerIdle

NextChat ==
  \/ BadRequest
  \/ \E userId \in ChatUsers : Receive(userId)
  \/ \E r \in 1..MaxRequests, response \in LlmResponses : LlmReturns(r, response)
  \/ \E r \in 1..MaxRequests, response \in LlmResponses : RepeatReturns(r, response)
  \/ \E r \in 1..MaxRequests, response \in LlmResponses : DoneReturns(r, response)
  \/ \E r \in 1..MaxRequests : StoreResolves(r)
  \/ \E r \in 1..MaxRequests : StoreRejects(r)

SpecChat == InitChat /\ [][NextChat]_vars

----------------------------------------------------------------------------
(* services/llm.ts: chatWithBot on its own, with the RAG context lookup.     *)
(* Trait values, weights and confidence are in hundredths.                   *)

\* Math.min(Math.max(value, min), max)
clamp(value, min, max) ==
  LET lower == IF value > min THEN value ELSE min
  IN  IF lower < max THEN lower ELSE max

\* The object the catch block returns
FallbackResponse ==
  [assistantMessage |-> "I'd love to hear more about that! What else do you enjoy doing?",
   profileUpdate |->
     [traits |-> [openness |-> 50, conscientiousness |-> 50, extraversion |-> 50,
                  agreeableness |-> 50, neuroticism |-> 50],
      interests |-> {},
      confidence |-> 10]]

\* Trait and confidence values a completion can carry, in and out of [0,1]
CompletionValues == { -20, 40, 130 }

\* What the awaited completions.create gives: a rejection, a completion with
\* no choice, with empty content, with content that is not JSON, with the
\* JSON text null, with an object that has no profileUpdate, and with an
\* object of the schema.
Completions ==
  { [kind |-> "rejected"], [kind |-> "noChoices"], [kind |-> "empty"],
    [kind |-> "notJson"], [kind |-> "null"], [kind |-> "noProfileUpdate"] }
  \cup
  { [kind |-> "json", openness |-> o, neuroticism |-> n, confidence |-> c] :
      o \in CompletionValues, n \in CompletionValues, c \in CompletionValues }

\* The body of the try block from the point the await settles: threw says
\* whether it throws, value is what it returns otherwise
TryBlock(c) ==
  CASE c.kind = "rejected" -> [threw |-> TRUE]
    [] c.kind = "noChoices" -> [threw |-> TRUE]
    [] c.kind = "empty" -> [threw |-> TRUE]
    [] c.kind = "notJson" -> [threw |-> TRUE]
    [] c.kind = "null" -> [threw |-> TRUE]
    [] c.kind = "noProfileUpdate" ->
         [threw |-> FALSE, value |-> [assistantMessage |-> "hi"]]
    [] c.kind = "json" ->
         [threw |-> FALSE,
          value |->
            [assistantMessage |-> "hi",
             profileUpdate |->
               [traits |-> [openness |-> clamp(c.openness, 0, 100),
                            conscientiousness |-> clamp(50, 0, 100),
                            extraversion |-> clamp(50, 0, 100),
                            agreeableness |-> clamp(50, 0, 100),
                            neuroticism |-> clamp(c.neuroticism, 0, 100)],
                interests |-> {},
                confidence |-> clamp(c.confidence, 0, 100)]]]

\* A catch block that throws again what it caught.
CatchRethrows(t) ==
  IF t.threw THEN [settled |-> "rejected", value |-> << >>]
  ELSE [settled |-> "resolved", value |-> << t.value >>]

\* try { ... } catch (error) { return fallback }
CatchReturnsFallback(t) ==
  IF t.threw THEN [settled |-> "resolved", value |-> << FallbackResponse >>]
  ELSE [settled |-> "resolved", value |-> << t.value >>]

\* users.find(u => u.id === id) finds a user
UserKnown(us, id) == \E i \in 1..Len(us) : us[i].id = id

\* What the awaited getKNearestNeighbors gives: a rejection, or a list of
\* neighbour ids (none, a user of the corpus, an id of no user)
NeighborOutcomes ==
  { [rejected |-> TRUE, ids |-> << >>], [rejected |-> FALSE, ids |-> << >>],
    [rejected |-> FALSE, ids |-> << UserId(1) >>],
    [rejected |-> FALSE, ids |-> << "ghost" >>] }

\* neighbors.map(n => getUserById(n.id)).filter(u => u !== undefined)
RECURSIVE similarUsers(_, _)
similarUsers(us, ids) ==
  IF ids = << >> THEN << >>
  ELSE IF UserKnown(us, Head(ids)) THEN << Head(ids) >> \o similarUsers(us, Tail(ids))
  ELSE similarUsers(us, Tail(ids))

\* The userIds chatWithBot is called with: none, a user of the corpus or not
LlmUserIds == { << >>, << UserId(0) >>, << UserId(4) >> }

llmLocals == << indexIds, now, numQueries, k, ci, queryIndices, qi, groundTruth,
                startTime, latencies, totalHits, results, latencyBudget,
                selectedConfig >>

\* chatWithBot is called (lines 176-180) and getSimilarUsersContext runs to
\* its await or to its return (lines 98-115).
CallChatWithBot ==
  /\ pc = "called"
  /\ IF llmUserId = << >>
     THEN /\ ragContext' = << "" >>
          /\ pc' = "openai"
     ELSE IF ~UserKnown(users, llmUserId[1])
          THEN /\ ragContext' = << "examples" >>
               /\ pc' = "openai"
          ELSE /\ ragContext' = ragContext
               /\ pc' = "rag"
  /\ UNCHANGED << users, error, llmLocals, indexVars, samplerVars, sessions,
                  sessionStore, requests, reply, llmUserId, completion,
                  chatResponse >>

\* The neighbour lookup settles (lines 117-160): similar users when it gave
\* some, the examples when it gave none or rejected.
NeighborsSettle(outcome) ==
  /\ pc = "rag"
  /\ ragContext' = IF outcome.rejected \/ similarUsers(users, outcome.ids) = << >>
                   THEN << "examples" >>
                   ELSE << "similar" >>
  /\ pc' = "openai"
  /\ UNCHANGED << users, error, llmLocals, indexVars, samplerVars, sessions,
                  sessionStore, requests, reply, llmUserId, completion,
                  chatResponse >>

\* completions.create settles and chatWithBot runs to its end (lines 198-237).
CompletionSettles(c) ==
  /\ pc = "openai"
  /\ completion' = << c >>
  /\ LET out == CatchReturnsFallback(TryBlock(c))
     IN  /\ pc' = out.settled
         /\ chatResponse' = out.value
         /\ error' = IF out.settled = "rejected" THEN "OpenAIError" ELSE error
  /\ UNCHANGED << users, llmLocals, indexVars, samplerVars, sessions,
                  sessionStore, requests, reply, llmUserId, ragContext >>

InitLlm ==
  /\ users \in SeededCorpora
  /\ llmUserId \in LlmUserIds
  /\ ragContext = << >>
  /\ completion = << >>
  /\ chatResponse = << >>
  /\ sessions = << >>
  /\ sessionStore = << >>
  /\ requests = << >>
  /\ reply = << >>
  /\ pc = "called"
  /\ error = "none"
  /\ indexIds = << >>
  /\ now = 0
  /\ numQueries = 0
  /\ k = RecallK
  /\ ci = 0
  /\ queryIndices = << >>
  /\ qi = 0
  /\ groundTruth = << >>
  /\ startTime = 0
  /\ latencies = << >>
  /\ totalHits = 0
  /\ results = << >>
  /\ latencyBudget = << >>
  /\ selectedConfig = << >>
  /\ IndexNotModelled
  /\ SamplerIdle

NextLlm ==
  \/ CallChatWithBot
  \/ \E outcome \in NeighborOutcomes : NeighborsSettle(outcome)
  \/ \E c \in Completions : CompletionSettles(c)

SpecLlm == InitLlm /\ [][NextLlm]_vars

----------------------------------------------------------------------------
(* Claims about the chat session, under SpecChat *)

\* The turn count of a user's session, 0 while the user has none
TurnCountOf(u) ==
  IF u \in DOMAIN sessionStore THEN sessions[sessionStore[u]].turn_count ELSE 0

\* The requests of a user that have gone through the session update
Updated(u) ==
  { r \in 1..Len(requests) :
      requests[r].userId = u /\ requests[r].pc \in { "store", "replied" } }

\* C26: each request that reaches the session update adds exactly 1 to the
\* turn count of its user and nothing else changes a turn count; all requests
\* of a user hold the one session object stored for the user, which is never
\* replaced; so N requests of a user with no earlier turns, overlapping at
\* the awaits or not, leave turn_count = N.
C26_TurnCountCountsRequests ==
  /\ [][\A u \in ChatUsers :
          /\ TurnCountOf(u)' - TurnCountOf(u)
               = Cardinality(Updated(u)') - Cardinality(Updated(u))
          /\ u \in DOMAIN sessionStore =>
               /\ u \in DOMAIN sessionStore'
               /\ sessionStore'[u] = sessionStore[u]]_vars
  /\ [](/\ \A r \in 1..Len(requests) :
             /\ requests[r].userId \in DOMAIN sessionStore
             /\ requests[r].sessionState = sessionStore[requests[r].userId]
        /\ Len(sessions) = Cardinality(DOMAIN sessionStore)
        /\ TurnCountOf("user_001") = Cardinality(Updated("user_001")))

\* Two requests of one user overlapped: both are at the await of the store
\* update, and the session has counted both.
C26_Witness ==
  /\ Len(requests) = 2
  /\ requests[1].userId = "user_001"
  /\ requests[2].userId = "user_001"
  /\ requests[1].pc = "store"
  /\ requests[2].pc = "store"
  /\ TurnCountOf("user_001") = 2

StageRank(stage) ==
  CASE stage = "warmup" -> 0
    [] stage = "preferences" -> 1
    [] stage = "group-fit" -> 2
    [] stage = "wrapup" -> 3

\* C27: over the turns of a user the stage of the session never moves
\* backwards in the order warmup, preferences, group-fit, wrapup; a session
\* in wrapup stays in wrapup.
C27_StageNeverMovesBack ==
  [][\A i \in 1..Len(sessions) :
       StageRank(sessions'[i].stage) >= StageRank(sessions[i].stage)]_vars

AllowedTopics == RangeOf(ALLOWED_TOPICS)

NoTopicTwice(asked) ==
  \A i, j \in 1..Len(asked) : asked[i] = asked[j] => i = j

\* C28: asked_topics of every session holds only allowed topics, none twice,
\* at most 15 and so at most 10 of them; the nextTopic a turn computes, which
\* is the one its reply carries, is an allowed topic not asked before the
\* turn or the empty string, and it is the empty string exactly when every
\* allowed topic was asked before the turn.
C28_AskedTopicsAllowedAndUnique ==
  /\ [](\A i \in 1..Len(sessions) :
          /\ RangeOf(sessions[i].asked_topics) \subseteq AllowedTopics
          /\ NoTopicTwice(sessions[i].asked_topics)
          /\ Len(sessions[i].asked_topics) <= 15
          /\ Len(sessions[i].asked_topics) <= Len(ALLOWED_TOPICS))
  /\ [][\A r \in 1..Len(requests) :
          /\ (requests[r].pc # "store" /\ requests'[r].pc = "store") =>
               LET asked == RangeOf(sessions[requests[r].sessionState].asked_topics)
                   nextTopic == requests'[r].nextTopic
               IN  /\ \/ nextTopic = ""
                      \/ nextTopic \in AllowedTopics \ asked
                   /\ nextTopic = "" <=> AllowedTopics \subseteq asked
          /\ (requests[r].pc = "store" /\ requests'[r].pc = "replied"
                /\ reply'[1].status = 200) =>
               reply'[1].nextTopic = requests[r].nextTopic]_vars

\* A turn of a session in which every allowed topic was asked has replied,
\* with no topic.
C28_Witness ==
  /\ reply # << >>
  /\ reply[1].status = 200
  /\ reply[1].nextTopic = ""
  /\ \E i \in 1..Len(sessions) :
       /\ Len(sessions[i].asked_topics) = Len(ALLOWED_TOPICS)
       /\ sessions[i].turn_count >= 11

\* A turn named a topic the model chose, after the blanks and the capital
\* were taken off it.
C28_WitnessNamed ==
  \E i \in 1..Len(sessions) :
    /\ Len(sessions[i].asked_topics) >= 1
    /\ sessions[i].asked_topics[1] = "planning"

\* Request r goes through the session update in this step.
ReachesStore(r) == requests[r].pc # "store" /\ requests'[r].pc = "store"

\* Request r returns its reply in this step, and it is not the 500 one.
Returns200(r) ==
  /\ requests[r].pc = "store"
  /\ requests'[r].pc = "replied"
  /\ reply'[1].status = 200

\* The turn of request r is forced to be the last: done is true, the
\* itinerary is the fixed one, the stage it sets is wrapup.
ForcedDone(r) ==
  /\ requests'[r].finalResponse[1].done
  /\ requests'[r].finalResponse[1].itinerary = FIXED_ITINERARY
  /\ sessions'[requests[r].sessionState].stage = "wrapup"

\* The reply carries done and the itinerary of the response the turn ended
\* with.
ReplyCarriesFinal(r) ==
  /\ reply'[1].done = requests[r].finalResponse[1].done
  /\ requests[r].finalResponse[1].itinerary = FIXED_ITINERARY =>
       reply'[1].itinerary = FIXED_ITINERARY

\* The first response of request r, seen from the step of the session
\* update: the one arriving in this step if the turn had no retry, else the
\* one the handler holds as response
FirstResponse(r) ==
  IF requests[r].pc = "llm" THEN requests'[r].finalResponse[1]
  ELSE requests[r].response[1]

CheckedResponse(r) ==
  IF requests[r].pc = "llmDone" THEN requests[r].finalResponse[1]
  ELSE requests'[r].finalResponse[1]

----------------------------------------------------------------------------
(* Claims about chatWithBot, under SpecLlm *)

FailedCompletion(c) ==
  c.kind \in { "rejected", "noChoices", "empty", "notJson", "null" }

====
